---- MODULE Spec2Model ----
(***************************************************************************)
(* gonet.AutoReconnectConn (auto_reconn.go): a net.Conn wrapper that       *)
(* re-dials its transport when Read/Write fail with io.EOF or a            *)
(* non-temporary net.Error.                                                *)
(*                                                                         *)
(* Two goroutines use the wrapper, as in example/client/main.go: "reader"  *)
(* calls Read in a loop (the bufio.Scanner of main) and "writer" calls     *)
(* Write in a loop (intervalWrite); one more goroutine may call Close      *)
(* (delayClose).  Every statement of reconnect() that touches  *)
(* shared state (c.mu, c.wg, c.wg.err, c.Conn, c.ctx) is a step of its     *)
(* own, so that all interleavings the Go scheduler allows are explored.    *)
(* c.Conn is read and written without c.mu: a racing read yields the old   *)
(* or the new interface value, which is what the interleaving of the       *)
(* steps below produces.                                                   *)
(***************************************************************************)
EXTENDS Integers, Sequences, FiniteSets, TLC

\* ---- bounds of the model ------------------------------------------------
MaxDrops == 1        \* times the peer drops the wrapper's current transport
MaxFails == 1        \* dial attempts in a row the network lets fail when
                     \* both goroutines use the wrapper (Spec)
MaxAttempts == 7     \* the same when the reader alone uses it (SpecSolo)

\* ---- program constants (seconds) ----------------------------------------
maxReconnectTimeout == 60
initialTimeout == 1

Threads == {"reader", "writer"}

\* The method a goroutine calls.
Kind(t) == IF t = "reader" THEN "Read" ELSE "Write"

\* Room for the reconnectWaitGroup objects alive at one time: c.wg and the
\* local wg of a thread are the only references, and the owner of c.wg holds
\* no other.
Slots == 1..Cardinality(Threads)

VARIABLES
    Conn,         \* c.Conn: identity of the embedded transport (1, 2, ...)
    connSt,       \* state of that transport: "live" | "dropped" | "closed"
    nconns,       \* transports dialed so far (the last identity handed out)
    cancelled,    \* c.ctx is Done (c.quit() was called)
    mu,           \* c.mu: "free", else the thread holding it
    wg,           \* c.wg: a slot of ops, 0 for nil
    ops,          \* the reconnectWaitGroup objects still referenced
    OnConnected,  \* c.OnConnected != nil
    closer,       \* position of the goroutine calling Close
    drops,        \* transports dropped by the peer so far
    outage,       \* dial attempts in a row the network lets fail
    pc,           \* position of each thread
    myop,         \* local wg of reconnect(): the operation joined or cleared
    newconn,      \* local conn of reconnect(): result of DialContext, 0 if none
    timeout,      \* local timeout of reconnect()
    attempt,      \* failed dials of the thread's current dial loop
    ioErr,        \* err of Read/Write: the error of the call's last failed I/O
    failConn,     \* transport on which the I/O that led to reconnect() was done
    rcs,          \* reconnect() invocations of the call so far
    result,       \* what the thread's last finished call returned
    ctor,         \* position of main in DialAutoReconnectContext: "dial" |
                  \* "hook" | "hooked" | "returned" | "failed"
    ctorErr,      \* err of DialAutoReconnectContext, returned when it fails
    hooks         \* transports OnConnected was invoked on, in order

vars == <<Conn, connSt, nconns, cancelled, mu, wg, ops, OnConnected, closer,
          drops, outage, pc, myop, newconn, timeout, attempt, ioErr,
          failConn, rcs, result, ctor, ctorErr, hooks>>

\* the construction of the wrapper, over once it is in use
construction == <<ctor, ctorErr>>

\* what only construction and the callback's invocations change
setup == <<OnConnected, construction, hooks>>

\* the wrapper and its environment
shared == <<Conn, connSt, nconns, cancelled, mu, wg, ops, closer, drops,
            outage, setup>>

\* what one call keeps outside reconnect()
callvars == <<ioErr, failConn, rcs, result>>

\* the locals of reconnect()
locals == <<myop, newconn, timeout, attempt>>

\* ---- errors ---------------------------------------------------------------
\* "nil"               no error
\* "EOF"               io.EOF
\* "ErrTimeout"        a net.Error with Temporary() = true
\* "ErrReset"          a net.Error with Temporary() = false (peer reset)
\* "ErrNetClosed"      a net.Error with Temporary() = false (use of closed conn)
\* "ErrOther"          an error that is neither io.EOF nor a net.Error
\* "ErrClosedManually" gonet.ErrClosedManually
\* "ErrHook"           an error returned by the OnConnected callback
IsNetError(err) == err \in {"ErrTimeout", "ErrReset", "ErrNetClosed"}

Temporary(err) == err = "ErrTimeout"

\* What c.Conn.Read / c.Conn.Write can return on a transport in state st.
ConnIO(k, st) ==
    IF st = "live" THEN {"nil", "ErrTimeout", "ErrOther"}
    ELSE IF st = "dropped"
         THEN (IF k = "Read" THEN {"EOF", "ErrReset"} ELSE {"ErrReset"})
         ELSE {"ErrNetClosed"}

\* reconnectIfNeeded without the Temporary() test.
NeedsReconnectAnyNetError(err) ==
    /\ err # "nil"
    /\ err = "EOF" \/ IsNetError(err)

\* reconnectIfNeeded: does err send the caller into reconnect()?
NeedsReconnect(err) ==
    /\ err # "nil"
    /\ err = "EOF" \/ (IsNetError(err) /\ ~Temporary(err))

\* timeout *= 2 without the cap.
NextTimeoutNoCap(d) == d * 2

\* The next backoff wait: timeout *= 2, capped at maxReconnectTimeout.
NextTimeout(d) ==
    IF d * 2 > maxReconnectTimeout THEN maxReconnectTimeout ELSE d * 2

\* new(reconnectWaitGroup) followed by Add(1): err is nil, the barrier shut.
NewOp == [err |-> "nil", open |-> FALSE]

\* reconnectWaitGroup objects are heap objects: a slot is free when neither
\* c.wg nor the local wg of any thread refers to it.
FreeSlots == {o \in Slots : o # wg /\ \A t \in Threads : myop[t] # o}

Alloc == CHOOSE o \in FreeSlots : \A p \in FreeSlots : o <= p

\* The wrapper as DialAutoReconnectContext returns it, its transport in state
\* st, with n the number of dial attempts in a row the network lets fail.
InitWith(st, n) ==
    /\ Conn = 1
    /\ connSt = st
    /\ nconns = 1
    /\ cancelled = FALSE
    /\ mu = "free"
    /\ wg = 0
    /\ ops = [o \in Slots |-> NewOp]
    /\ OnConnected \in BOOLEAN
    /\ closer = "idle"
    /\ drops = 0
    /\ outage = n
    /\ pc = [t \in Threads |-> "idle"]
    /\ myop = [t \in Threads |-> 0]
    /\ newconn = [t \in Threads |-> 0]
    /\ timeout = [t \in Threads |-> 0]
    /\ attempt = [t \in Threads |-> 0]
    /\ ioErr = [t \in Threads |-> "nil"]
    /\ failConn = [t \in Threads |-> 0]
    /\ rcs = [t \in Threads |-> 0]
    /\ result = [t \in Threads |-> "none"]
    /\ ctor = "returned"
    /\ ctorErr = "nil"
    /\ hooks = IF OnConnected THEN <<1>> ELSE <<>>

Init == InitWith("live", MaxFails)

InitSolo == InitWith("live", MaxAttempts)

\* The peer has dropped the transport by the time the goroutines start.
InitDropped == InitWith("dropped", MaxFails)

\* ---- DialAutoReconnectContext ---------------------------------------------------
\* Before main calls DialAutoReconnectContext: there is no wrapper and no
\* goroutine that uses one.
InitDial ==
    /\ Conn = 0
    /\ connSt = "none"
    /\ nconns = 0
    /\ cancelled = FALSE
    /\ mu = "free"
    /\ wg = 0
    /\ ops = [o \in Slots |-> NewOp]
    /\ OnConnected \in BOOLEAN
    /\ closer = "none"
    /\ drops = 0
    /\ outage = MaxFails
    /\ pc = [t \in Threads |-> "none"]
    /\ myop = [t \in Threads |-> 0]
    /\ newconn = [t \in Threads |-> 0]
    /\ timeout = [t \in Threads |-> 0]
    /\ attempt = [t \in Threads |-> 0]
    /\ ioErr = [t \in Threads |-> "nil"]
    /\ failConn = [t \in Threads |-> 0]
    /\ rcs = [t \in Threads |-> 0]
    /\ result = [t \in Threads |-> "none"]
    /\ ctor = "dial"
    /\ ctorErr = "nil"
    /\ hooks = <<>>

\* return autoConn, err, reached with err nil only: main has the wrapper and
\* starts the goroutines that use it.
CtorReturn ==
    /\ ctor' = "returned"
    /\ pc' = [t \in Threads |-> "idle"]
    /\ closer' = "idle"
    /\ UNCHANGED ctorErr

\* DialContext fails: return nil, err
CtorDialFail ==
    /\ ctor = "dial"
    /\ ctor' = "failed"
    /\ ctorErr' = "ErrDial"
    /\ UNCHANGED <<Conn, connSt, nconns, cancelled, mu, wg, ops, OnConnected,
                   hooks, closer, drops, outage, pc, callvars, locals>>

\* DialContext returns conn; autoConn := newConn(conn, connOpts...); then
\* autoConn.OnConnected(conn) is called if there is a callback, and the
\* wrapper is returned if there is none.
CtorDialOk ==
    /\ ctor = "dial"
    /\ nconns' = nconns + 1
    /\ Conn' = nconns + 1
    /\ connSt' = "live"
    /\ IF OnConnected
       THEN /\ ctor' = "hook"
            /\ hooks' = Append(hooks, Conn')
            /\ UNCHANGED <<ctorErr, pc, closer>>
       ELSE /\ CtorReturn
            /\ UNCHANGED hooks
    /\ UNCHANGED <<cancelled, mu, wg, ops, OnConnected, drops, outage,
                   callvars, locals>>

\* the callback returns: err := autoConn.OnConnected(conn)
CtorHook(err) ==
    /\ ctor = "hook"
    /\ err \in {"nil", "ErrHook"}
    /\ ctor' = "hooked"
    /\ ctorErr' = err
    /\ UNCHANGED <<Conn, connSt, nconns, cancelled, mu, wg, ops, OnConnected,
                   hooks, closer, drops, outage, pc, callvars, locals>>

\* The wrapper returned whatever the callback returned.
CtorCheckIgnored ==
    /\ ctor = "hooked"
    /\ CtorReturn
    /\ UNCHANGED <<Conn, connSt, nconns, cancelled, mu, wg, ops, OnConnected,
                   hooks, drops, outage, callvars, locals>>

\* if err != nil { return nil, err }; return autoConn, err
CtorCheck ==
    /\ ctor = "hooked"
    /\ IF ctorErr # "nil"
       THEN /\ ctor' = "failed"
            /\ UNCHANGED <<ctorErr, pc, closer>>
       ELSE CtorReturn
    /\ UNCHANGED <<Conn, connSt, nconns, cancelled, mu, wg, ops, OnConnected,
                   hooks, drops, outage, callvars, locals>>

\* ---- the environment -------------------------------------------------------
\* The peer closes or loses the wrapper's current transport.
Drop ==
    /\ drops < MaxDrops
    /\ connSt = "live"
    /\ connSt' = "dropped"
    /\ drops' = drops + 1
    /\ UNCHANGED <<Conn, nconns, cancelled, mu, wg, ops, setup, closer,
                   outage, pc, callvars, locals>>

\* ---- Close -----------------------------------------------------------------
\* c.quit()
CloseQuit ==
    /\ closer = "idle"
    /\ cancelled' = TRUE
    /\ closer' = "quit"
    /\ UNCHANGED <<Conn, connSt, nconns, mu, wg, ops, setup, drops,
                   outage, pc, callvars, locals>>

\* return c.Conn.Close()
CloseConn ==
    /\ closer = "quit"
    /\ connSt' = "closed"
    /\ closer' = "closed"
    /\ UNCHANGED <<Conn, nconns, cancelled, mu, wg, ops, setup, drops,
                   outage, pc, callvars, locals>>

\* ---- Read / Write ------------------------------------------------------------
\* The reader calls c.Read(b), the writer c.Write(b).
Call(t) ==
    /\ pc[t] = "idle"
    /\ pc' = [pc EXCEPT ![t] = "io"]
    /\ result' = [result EXCEPT ![t] = "none"]
    /\ UNCHANGED <<shared, ioErr, failConn, rcs, locals>>

\* Read/Write return err to their caller; the frame of the call dies.
Return(t, err) ==
    /\ pc' = [pc EXCEPT ![t] = "idle"]
    /\ result' = [result EXCEPT ![t] = err]
    /\ rcs' = [rcs EXCEPT ![t] = 0]
    /\ ioErr' = [ioErr EXCEPT ![t] = "nil"]
    /\ failConn' = [failConn EXCEPT ![t] = 0]

\* n, err := c.Conn.Read(b) (or Write), then reconnectIfNeeded(err) up to the
\* call of c.reconnect(): nil and errors that need no reconnect are returned
\* to the caller, the others send the thread to reconnect().
IO(t, err) ==
    /\ pc[t] = "io"
    /\ err \in ConnIO(Kind(t), connSt)
    /\ IF NeedsReconnect(err)
       THEN /\ pc' = [pc EXCEPT ![t] = "lock1"]
            /\ rcs' = [rcs EXCEPT ![t] = @ + 1]
            /\ ioErr' = [ioErr EXCEPT ![t] = err]
            /\ failConn' = [failConn EXCEPT ![t] = Conn]
            /\ UNCHANGED result
       ELSE Return(t, err)
    /\ UNCHANGED <<shared, locals>>

\* ---- reconnect() -------------------------------------------------------------
\* reconnect() entered without taking c.mu.
Lock1NoMutex(t) ==
    /\ pc[t] = "lock1"
    /\ mu' = t
    /\ pc' = [pc EXCEPT ![t] = "check"]
    /\ UNCHANGED <<Conn, connSt, nconns, cancelled, wg, ops, setup,
                   closer, drops, outage, callvars, locals>>

\* c.mu.Lock() at the top of reconnect()
Lock1(t) ==
    /\ pc[t] = "lock1"
    /\ mu = "free"
    /\ mu' = t
    /\ pc' = [pc EXCEPT ![t] = "check"]
    /\ UNCHANGED <<Conn, connSt, nconns, cancelled, wg, ops, setup,
                   closer, drops, outage, callvars, locals>>

\* if c.wg != nil
Check(t) ==
    /\ pc[t] = "check"
    /\ pc' = [pc EXCEPT ![t] = IF wg # 0 THEN "join" ELSE "publish"]
    /\ UNCHANGED <<shared, callvars, locals>>

\* The barrier waited for with c.mu still locked.
JoinLocked(t) ==
    /\ pc[t] = "join"
    /\ myop' = [myop EXCEPT ![t] = wg]
    /\ pc' = [pc EXCEPT ![t] = "wait"]
    /\ UNCHANGED <<Conn, connSt, nconns, cancelled, mu, wg, ops, setup,
                   closer, drops, outage, callvars, newconn, timeout, attempt>>

\* wg := c.wg; c.mu.Unlock(); wg.Wait() begins
Join(t) ==
    /\ pc[t] = "join"
    /\ myop' = [myop EXCEPT ![t] = wg]
    /\ mu' = "free"
    /\ pc' = [pc EXCEPT ![t] = "wait"]
    /\ UNCHANGED <<Conn, connSt, nconns, cancelled, wg, ops, setup,
                   closer, drops, outage, callvars, newconn, timeout, attempt>>

\* c.wg = new(reconnectWaitGroup); c.wg.Add(1); c.mu.Unlock();
\* raddr := c.Conn.RemoteAddr(); timeout := time.Second
Publish(t) ==
    /\ pc[t] = "publish"
    /\ ops' = [ops EXCEPT ![Alloc] = NewOp]
    /\ wg' = Alloc
    /\ mu' = "free"
    /\ timeout' = [timeout EXCEPT ![t] = initialTimeout]
    /\ pc' = [pc EXCEPT ![t] = "ctx"]
    /\ UNCHANGED <<Conn, connSt, nconns, cancelled, setup, closer,
                   drops, outage, callvars, myop, newconn, attempt>>

\* Read/Write calling themselves again whatever reconnect() returned.
ResumeAlwaysRetry(t, err) ==
    /\ myop' = [myop EXCEPT ![t] = 0]
    /\ newconn' = [newconn EXCEPT ![t] = 0]
    /\ timeout' = [timeout EXCEPT ![t] = 0]
    /\ attempt' = [attempt EXCEPT ![t] = 0]
    /\ pc' = [pc EXCEPT ![t] = "io"]
    /\ failConn' = [failConn EXCEPT ![t] = 0]
    /\ UNCHANGED <<ioErr, rcs, result>>

\* reconnect() returns err: its locals die, reconnectIfNeeded returns
\* (true, err), and Read/Write return (0, err) when err != nil and call
\* themselves again when err == nil.
Resume(t, err) ==
    /\ myop' = [myop EXCEPT ![t] = 0]
    /\ newconn' = [newconn EXCEPT ![t] = 0]
    /\ timeout' = [timeout EXCEPT ![t] = 0]
    /\ attempt' = [attempt EXCEPT ![t] = 0]
    /\ IF err # "nil"
       THEN Return(t, err)
       ELSE /\ pc' = [pc EXCEPT ![t] = "io"]
            /\ failConn' = [failConn EXCEPT ![t] = 0]
            /\ UNCHANGED <<ioErr, rcs, result>>

\* wg.Wait() returns once the counter is zero; return wg.err
WaitReturn(t) ==
    /\ pc[t] = "wait"
    /\ ops[myop[t]].open
    /\ Resume(t, ops[myop[t]].err)
    /\ UNCHANGED shared

\* The loop left on cancellation without c.wg.err being set.
CheckCtxNoErr(t) ==
    /\ pc[t] = "ctx"
    /\ pc' = [pc EXCEPT ![t] = IF cancelled THEN "lock2" ELSE "dial"]
    /\ UNCHANGED <<shared, callvars, locals>>

\* select { case <-c.ctx.Done(): c.wg.err = ErrClosedManually; break reconnect
\* default: }
CheckCtx(t) ==
    /\ pc[t] = "ctx"
    /\ IF cancelled
       THEN /\ ops' = [ops EXCEPT ![wg].err = "ErrClosedManually"]
            /\ pc' = [pc EXCEPT ![t] = "lock2"]
       ELSE /\ pc' = [pc EXCEPT ![t] = "dial"]
            /\ UNCHANGED ops
    /\ UNCHANGED <<Conn, connSt, nconns, cancelled, mu, wg, setup,
                   closer, drops, outage, callvars, locals>>

\* (&net.Dialer{}).DialContext(c.ctx, ...) is called
DialCall(t) ==
    /\ pc[t] = "dial"
    /\ pc' = [pc EXCEPT ![t] = "dialing"]
    /\ UNCHANGED <<shared, callvars, locals>>

\* DialContext returns a connection: only while the context is not cancelled.
DialOk(t) ==
    /\ pc[t] = "dialing"
    /\ ~cancelled
    /\ nconns' = nconns + 1
    /\ newconn' = [newconn EXCEPT ![t] = nconns + 1]
    /\ pc' = [pc EXCEPT ![t] = "swap"]
    /\ UNCHANGED <<Conn, connSt, cancelled, mu, wg, ops, setup, closer,
                   drops, outage, callvars, myop, timeout, attempt>>

\* The dial error stored as the operation's outcome and the loop left.
DialFailSurfaced(t) ==
    /\ pc[t] = "dialing"
    /\ cancelled \/ attempt[t] < outage
    /\ ops' = [ops EXCEPT ![wg].err = "ErrDial"]
    /\ attempt' = [attempt EXCEPT ![t] = @ + 1]
    /\ pc' = [pc EXCEPT ![t] = "lock2"]
    /\ UNCHANGED <<Conn, connSt, nconns, cancelled, mu, wg, setup,
                   closer, drops, outage, callvars, myop, newconn, timeout>>

\* DialContext returns an error (always so once the context is cancelled):
\* timeout *= 2, capped, and the select on time.After(timeout) begins.
DialFail(t) ==
    /\ pc[t] = "dialing"
    /\ cancelled \/ attempt[t] < outage
    /\ timeout' = [timeout EXCEPT ![t] = NextTimeout(@)]
    /\ attempt' = [attempt EXCEPT ![t] = @ + 1]
    /\ pc' = [pc EXCEPT ![t] = "backoff"]
    /\ UNCHANGED <<shared, callvars, myop, newconn>>

\* A timer that never fires: the select is left through c.ctx.Done() only.
BackoffTimerNever(t) ==
    /\ pc[t] = "backoff"
    /\ cancelled
    /\ pc' = [pc EXCEPT ![t] = "ctx"]
    /\ UNCHANGED <<shared, callvars, locals>>

\* case <-time.After(timeout): continue
BackoffTimer(t) ==
    /\ pc[t] = "backoff"
    /\ pc' = [pc EXCEPT ![t] = "ctx"]
    /\ UNCHANGED <<shared, callvars, locals>>

\* The cancelled loop leaving the wrapper without a transport.
BackoffCancelUnset(t) ==
    /\ pc[t] = "backoff"
    /\ cancelled
    /\ Conn' = 0
    /\ ops' = [ops EXCEPT ![wg].err = "ErrClosedManually"]
    /\ pc' = [pc EXCEPT ![t] = "lock2"]
    /\ UNCHANGED <<connSt, nconns, cancelled, mu, wg, setup, closer, drops,
                   outage, callvars, locals>>

\* case <-c.ctx.Done(): c.wg.err = ErrClosedManually; break reconnect
BackoffCancel(t) ==
    /\ pc[t] = "backoff"
    /\ cancelled
    /\ ops' = [ops EXCEPT ![wg].err = "ErrClosedManually"]
    /\ pc' = [pc EXCEPT ![t] = "lock2"]
    /\ UNCHANGED <<Conn, connSt, nconns, cancelled, mu, wg, setup,
                   closer, drops, outage, callvars, locals>>

\* The barrier released at the swap, before the callback has run.
SwapRelease(t) ==
    /\ pc[t] = "swap"
    /\ Conn' = newconn[t]
    /\ connSt' = "live"
    /\ ops' = [ops EXCEPT ![wg].open = TRUE]
    /\ hooks' = IF OnConnected THEN Append(hooks, Conn') ELSE hooks
    /\ pc' = [pc EXCEPT ![t] = IF OnConnected THEN "hook" ELSE "lock2"]
    /\ UNCHANGED <<nconns, cancelled, mu, wg, OnConnected, construction,
                   closer, drops, outage, callvars, locals>>

\* The loop left after the swap without the callback being called.
SwapSkipHook(t) ==
    /\ pc[t] = "swap"
    /\ Conn' = newconn[t]
    /\ connSt' = "live"
    /\ pc' = [pc EXCEPT ![t] = "lock2"]
    /\ UNCHANGED <<nconns, cancelled, mu, wg, ops, OnConnected, construction,
                   hooks, closer, drops, outage, callvars, locals>>

\* c.Conn = conn, then, if there is a callback, c.OnConnected(c.Conn) is
\* called: the callback runs while the thread is at "hook".
Swap(t) ==
    /\ pc[t] = "swap"
    /\ Conn' = newconn[t]
    /\ connSt' = "live"
    /\ hooks' = IF OnConnected THEN Append(hooks, Conn') ELSE hooks
    /\ pc' = [pc EXCEPT ![t] = IF OnConnected THEN "hook" ELSE "lock2"]
    /\ UNCHANGED <<nconns, cancelled, mu, wg, ops, OnConnected, construction,
                   closer, drops, outage, callvars, locals>>

\* A failed callback sending the loop round again.
HookRedial(t, err) ==
    /\ pc[t] = "hook"
    /\ err \in {"nil", "ErrHook"}
    /\ ops' = [ops EXCEPT ![wg].err = err]
    /\ pc' = [pc EXCEPT ![t] = IF err = "nil" THEN "lock2" ELSE "ctx"]
    /\ UNCHANGED <<Conn, connSt, nconns, cancelled, mu, wg, setup,
                   closer, drops, outage, callvars, locals>>

\* the callback returns: c.wg.err = c.OnConnected(c.Conn); break reconnect
Hook(t, err) ==
    /\ pc[t] = "hook"
    /\ err \in {"nil", "ErrHook"}
    /\ ops' = [ops EXCEPT ![wg].err = err]
    /\ pc' = [pc EXCEPT ![t] = "lock2"]
    /\ UNCHANGED <<Conn, connSt, nconns, cancelled, mu, wg, setup,
                   closer, drops, outage, callvars, locals>>

\* c.mu.Lock() after the loop
Lock2(t) ==
    /\ pc[t] = "lock2"
    /\ mu = "free"
    /\ mu' = t
    /\ pc' = [pc EXCEPT ![t] = "clear"]
    /\ UNCHANGED <<Conn, connSt, nconns, cancelled, wg, ops, setup,
                   closer, drops, outage, callvars, locals>>

\* The operation left published: wg := c.wg; c.mu.Unlock()
ClearKeep(t) ==
    /\ pc[t] = "clear"
    /\ myop' = [myop EXCEPT ![t] = wg]
    /\ mu' = "free"
    /\ pc' = [pc EXCEPT ![t] = "done"]
    /\ UNCHANGED <<Conn, connSt, nconns, cancelled, wg, ops, setup, closer,
                   drops, outage, callvars, newconn, timeout, attempt>>

\* wg := c.wg; c.wg = nil; c.mu.Unlock()
Clear(t) ==
    /\ pc[t] = "clear"
    /\ myop' = [myop EXCEPT ![t] = wg]
    /\ wg' = 0
    /\ mu' = "free"
    /\ pc' = [pc EXCEPT ![t] = "done"]
    /\ UNCHANGED <<Conn, connSt, nconns, cancelled, ops, setup, closer,
                   drops, outage, callvars, newconn, timeout, attempt>>

\* wg.Done()
Done(t) ==
    /\ pc[t] = "done"
    /\ ops' = [ops EXCEPT ![myop[t]].open = TRUE]
    /\ pc' = [pc EXCEPT ![t] = "ret"]
    /\ UNCHANGED <<Conn, connSt, nconns, cancelled, mu, wg, setup,
                   closer, drops, outage, callvars, locals>>

\* return wg.err
OwnerReturn(t) ==
    /\ pc[t] = "ret"
    /\ Resume(t, ops[myop[t]].err)
    /\ UNCHANGED shared

\* reconnect() as the thread that finds c.wg nil runs it
Owner(t) ==
    \/ Lock1(t)
    \/ Check(t)
    \/ Publish(t)
    \/ CheckCtx(t)
    \/ DialCall(t)
    \/ DialOk(t)
    \/ DialFail(t)
    \/ BackoffTimer(t)
    \/ BackoffCancel(t)
    \/ Swap(t)
    \/ \E err \in {"nil", "ErrHook"} : Hook(t, err)
    \/ Lock2(t)
    \/ Clear(t)
    \/ Done(t)
    \/ OwnerReturn(t)

Reconnect(t) ==
    \/ Owner(t)
    \/ Join(t)
    \/ WaitReturn(t)

Errors == {"nil", "EOF", "ErrTimeout", "ErrReset", "ErrNetClosed", "ErrOther"}

Next ==
    \/ Drop
    \/ CloseQuit
    \/ CloseConn
    \/ \E t \in Threads : Call(t)
    \/ \E t \in Threads, err \in Errors : IO(t, err)
    \/ \E t \in Threads : Reconnect(t)

\* The reader and the writer use the wrapper, and one goroutine may close it.
Spec == Init /\ [][Next]_vars

\* The reader alone uses the wrapper, and one goroutine may close it.
NextSolo ==
    \/ Drop
    \/ CloseQuit
    \/ CloseConn
    \/ Call("reader")
    \/ \E err \in Errors : IO("reader", err)
    \/ Owner("reader")

SpecSolo == InitSolo /\ [][NextSolo]_vars

\* main constructs the wrapper; if it gets one, the reader and the writer use
\* it and one goroutine may close it.
NextDial ==
    \/ CtorDialFail
    \/ CtorDialOk
    \/ \E err \in {"nil", "ErrHook"} : CtorHook(err)
    \/ CtorCheck
    \/ Next

SpecDial == InitDial /\ [][NextDial]_vars

\* The Go scheduler runs every goroutine that can run, sync.Mutex hands the
\* lock to a goroutine that keeps waiting for it, and a callback and an I/O
\* on the transport return.
Fairness ==
    \A t \in Threads :
        /\ WF_vars(Reconnect(t))
        /\ WF_vars(\E err \in Errors : IO(t, err))
        /\ SF_vars(Lock1(t))
        /\ SF_vars(Lock2(t))

\* The reader and the writer use a wrapper whose transport has dropped, and
\* one goroutine may close it; no later transport drops.
NextDropped ==
    \/ CloseQuit
    \/ CloseConn
    \/ \E t \in Threads : Call(t)
    \/ \E t \in Threads, err \in Errors : IO(t, err)
    \/ \E t \in Threads : Reconnect(t)

SpecDropped == InitDropped /\ [][NextDropped]_vars /\ Fairness

\* ---- positions ---------------------------------------------------------------
\* inside the for loop of reconnect()
LoopPcs == {"ctx", "dial", "dialing", "backoff", "swap", "hook"}

\* between publishing c.wg and clearing it
OwnerPcs == LoopPcs \cup {"lock2", "clear"}

\* inside reconnect()
ReconnectPcs ==
    {"lock1", "check", "join", "publish", "wait", "done", "ret"} \cup OwnerPcs

Moves(t) == pc'[t] # pc[t]

RECURSIVE Pow2(_)
Pow2(n) == IF n = 0 THEN 1 ELSE 2 * Pow2(n - 1)

Min(a, b) == IF a < b THEN a ELSE b

\* ---- C1 ------------------------------------------------------------------------
C1_OneOwner ==
    /\ Cardinality({t \in Threads : pc[t] \in OwnerPcs}) <= 1
    /\ (wg # 0) <=> (\E t \in Threads : pc[t] \in OwnerPcs)

C1_JoinerWaits ==
    \A t \in Threads :
        /\ pc[t] = "check" /\ wg # 0 /\ Moves(t) => pc'[t] = "join"
        /\ pc[t] = "join" /\ Moves(t) => pc'[t] = "wait" /\ myop'[t] = wg
        /\ pc[t] = "wait" /\ Moves(t) =>
               /\ pc'[t] \in {"io", "idle"}
               /\ ops[myop[t]].open
               /\ nconns' = nconns /\ Conn' = Conn

\* C1: at most one thread is between publishing c.wg and clearing it (so at
\* most one is in the dial loop), c.wg is set exactly while there is such a
\* thread, and a thread that finds c.wg set in reconnect() takes that
\* operation, waits for its barrier and returns without dialing.
C1_OneDialLoop == []C1_OneOwner /\ [][C1_JoinerWaits]_vars

\* The writer waits on the operation whose owner, the reader, is dialing.
C1_Witness ==
    /\ pc["reader"] = "dialing"
    /\ pc["writer"] = "wait"
    /\ myop["writer"] = wg

\* ---- C2 ------------------------------------------------------------------------
\* C2: the calls that failed on one dropped transport are served by one dial
\* sequence: whoever runs a dial loop runs it for the transport that is still
\* installed, never for one that an earlier dial loop has already replaced.
C2_OneDialSequence ==
    \A t \in Threads :
        pc[t] \in {"ctx", "dial", "dialing", "backoff", "swap"} =>
            failConn[t] = Conn

C3_RetryStep ==
    \A t \in Threads :
        /\ pc[t] \in {"wait", "ret"} /\ Moves(t) =>
               IF ops[myop[t]].err = "nil"
               THEN pc'[t] = "io" /\ rcs'[t] = rcs[t]
               ELSE pc'[t] = "idle" /\ result'[t] = ops[myop[t]].err
        /\ pc[t] = "io" /\ Moves(t) =>
               \/ /\ pc'[t] = "lock1"
                  /\ ioErr'[t] \in {"EOF", "ErrReset", "ErrNetClosed"}
                  /\ rcs'[t] = rcs[t] + 1
               \/ /\ pc'[t] = "idle"
                  /\ result'[t] \in {"nil", "ErrTimeout", "ErrOther"}
        /\ pc'[t] = "io" /\ Moves(t) => pc[t] \in {"idle", "wait", "ret"}

FailedAfterClose(t) == ioErr[t] = "ErrNetClosed"

C4_Step ==
    \A t \in Threads :
        /\ pc[t] = "dial" /\ pc'[t] = "dialing" => ~cancelled
        /\ pc'[t] = "idle" /\ Moves(t) /\ FailedAfterClose(t) =>
               result'[t] = "ErrClosedManually"

\* C4: DialContext is not called once c.quit() has run, and a call that had
\* an I/O fail on the transport Close has closed returns ErrClosedManually.
C4_ClosedManuallyAfterClose == [][C4_Step]_vars

\* ---- C5 ------------------------------------------------------------------------
C5_Step ==
    /\ \A o \in Slots :
           ops[o].open /\ o \notin FreeSlots => ops'[o] = ops[o]
    /\ \A t \in Threads :
           pc[t] \in {"wait", "ret"} /\ Moves(t) =>
               /\ ops[myop[t]].open
               /\ IF ops[myop[t]].err = "nil"
                  THEN pc'[t] = "io"
                  ELSE pc'[t] = "idle" /\ result'[t] = ops[myop[t]].err

\* C5: from the moment wg.Done() has opened the barrier and for as long as a
\* thread refers to the operation, its err does not change, and every thread
\* leaving reconnect() through that operation, owner or joiner, leaves after
\* the barrier opened and with that err.
C5_SameOutcome == [][C5_Step]_vars

\* Owner and joiner are about to return the callback's error of one operation.
C5_Witness ==
    /\ pc["reader"] = "ret"
    /\ pc["writer"] = "wait"
    /\ myop["reader"] = myop["writer"]
    /\ ops[myop["reader"]].open
    /\ ops[myop["reader"]].err = "ErrHook"

\* ---- C6 ------------------------------------------------------------------------
\* the owner u has installed its transport and not yet called wg.Done()
Installing(u) ==
    /\ pc[u] \in {"hook", "lock2", "clear", "done"}
    /\ newconn[u] # 0
    /\ newconn[u] = Conn

C6_Step ==
    \A t \in Threads :
        pc[t] = "io" /\ Moves(t) =>
            ~ \E u \in Threads \ {t} : Installing(u)

\* C6: no thread other than the owner does c.Conn.Read/Write on the transport
\* of a reconnect whose barrier the owner has not opened yet.
C6_SwapHiddenUntilDone == [][C6_Step]_vars

\* ---- C7 ------------------------------------------------------------------------
\* the owner t is past a callback that failed
HookFailed(t) ==
    /\ pc[t] \in {"lock2", "clear"}
    /\ ops[wg].err = "ErrHook"

C7_Inv ==
    \A t \in Threads :
        HookFailed(t) => newconn[t] # 0 /\ Conn = newconn[t]

C7_Step ==
    \A t \in Threads :
        /\ pc[t] = "hook" /\ Moves(t) =>
               /\ pc'[t] = "lock2"
               /\ Conn' = Conn /\ Conn = newconn[t] /\ nconns' = nconns
               /\ connSt' = connSt /\ cancelled' = cancelled
        /\ pc[t] = "ret" /\ ops[myop[t]].err = "ErrHook" /\ Moves(t) =>
               /\ pc'[t] = "idle" /\ result'[t] = "ErrHook"
               /\ Conn' = Conn /\ connSt' = connSt /\ cancelled' = cancelled
        /\ pc[t] = "io" /\ Moves(t) /\ pc'[t] = "lock1" => failConn'[t] = Conn

\* C7: a callback error ends the dial loop with the dialed transport as
\* c.Conn; the step neither dials again nor closes or cancels anything; the
\* owner returns the callback's error from its call without another I/O; and
\* c.Conn stays the dialed transport while the operation is published, so the
\* next Read/Write, which uses c.Conn, is done on it.
C7_HookError == []C7_Inv /\ [][C7_Step]_vars

\* The reader got the callback's error, and the transport its reconnect
\* dialed is installed, live and not cancelled.
C7_Witness ==
    /\ result["reader"] = "ErrHook"
    /\ pc["reader"] = "idle"
    /\ Conn = 2 /\ connSt = "live" /\ ~cancelled
    /\ wg = 0

\* ---- C8 ------------------------------------------------------------------------
C8_Step ==
    \A t \in Threads :
        pc[t] = "io" /\ Moves(t) =>
            /\ pc'[t] = "lock1" =>
                   ioErr'[t] = "EOF" \/ ~Temporary(ioErr'[t])
            /\ connSt = "live" =>
                   /\ pc'[t] = "idle"
                   /\ result'[t] \in ConnIO(Kind(t), "live")
                   /\ Conn' = Conn /\ wg' = wg /\ ops' = ops
                   /\ nconns' = nconns

\* C8: no I/O that returned a temporary net.Error sends its thread into
\* reconnect(), and an I/O on a live transport, the only one that yields
\* temporary errors, returns what the transport returned and leaves c.Conn,
\* c.wg, the operations and the number of dials as they were.
C8_TemporaryPassthrough == [][C8_Step]_vars

\* The writer's call returned a temporary error and nothing was ever dialed.
C8_Witness ==
    /\ result["writer"] = "ErrTimeout"
    /\ pc["writer"] = "idle"
    /\ nconns = 1 /\ Conn = 1 /\ wg = 0

C10_ClosedOutcome ==
    \A t \in Threads :
        pc[t] \in {"lock2", "clear"} /\ newconn[t] = 0 =>
            cancelled /\ ops[wg].err = "ErrClosedManually"

\* C10: once Close has cancelled the context, every thread inside reconnect()
\* leaves it, the owner from the dial and from the backoff wait alike, and
\* the published operation is cleared; an owner that leaves the loop without
\* a dialed transport has set ErrClosedManually.
C10_CloseEndsReconnect ==
    /\ \A t \in Threads :
           (cancelled /\ pc[t] \in ReconnectPcs) ~> (pc[t] \notin ReconnectPcs)
    /\ (cancelled /\ wg # 0) ~> (wg = 0)
    /\ []C10_ClosedOutcome

\* Close has run while the owner is in a backoff wait and a joiner waits.
C10_Witness ==
    /\ cancelled
    /\ pc["reader"] = "backoff"
    /\ pc["writer"] = "wait"

\* ---- C11 -----------------------------------------------------------------------
\* Close is never called, no callback fails, and the transport in place has
\* data for every Read and room for every Write.
C11_Favourable ==
    /\ ~cancelled
    /\ \A o \in Slots : ops[o].err # "ErrHook"
    /\ \A t \in Threads : result[t] \notin {"ErrTimeout", "ErrOther"}

\* C11: when Close is never called, no callback fails and the new transport
\* serves the I/O, a Read that has entered reconnect() returns nil in the
\* end, however many of the dial attempts failed before one succeeded.
C11_ReadResumes ==
    [](C11_Favourable) =>
        ((pc["reader"] = "lock1") ~>
             (pc["reader"] = "idle" /\ result["reader"] = "nil"))

\* The reader's dial loop failed as often as the network lets it fail, then
\* dialed a transport, and is about to return nil from reconnect().
C11_Witness ==
    /\ pc["reader"] = "ret"
    /\ attempt["reader"] = MaxFails
    /\ newconn["reader"] # 0 /\ Conn = newconn["reader"]
    /\ ops[myop["reader"]].err = "nil"
    /\ ~cancelled

\* ---- C12 -----------------------------------------------------------------------
C12_Outcomes ==
    \A o \in Slots :
        /\ ops[o].err \in {"nil", "ErrClosedManually", "ErrHook"}
        /\ ops[o].err = "ErrClosedManually" => cancelled
        /\ ops[o].err = "ErrHook" => OnConnected

C12_Step ==
    \A t \in Threads :
        /\ pc[t] = "dialing" /\ pc'[t] # "swap" /\ Moves(t) =>
               /\ pc'[t] = "backoff"
               /\ ops' = ops /\ result' = result
        /\ pc[t] \in {"wait", "ret"} /\ pc'[t] = "idle" =>
               result'[t] \in {"ErrClosedManually", "ErrHook"}

Installed == 1..(IF \E t \in Threads : pc[t] = "swap" THEN nconns - 1 ELSE nconns)

C13_OncePerTransport ==
    IF OnConnected
    THEN /\ Len(hooks) = Cardinality(Installed)
         /\ \A c \in Installed : hooks[c] = c
    ELSE hooks = <<>>

\* the barrier of the published operation is shut while its owner is in the
\* loop, the callback included
C13_ShutInLoop ==
    \A t \in Threads : pc[t] \in LoopPcs => wg # 0 /\ ~ops[wg].open

C13_Step ==
    \A t \in Threads :
        /\ pc[t] = "swap" /\ Moves(t) =>
               /\ Conn' = newconn[t]
               /\ pc'[t] = IF OnConnected THEN "hook" ELSE "lock2"
               /\ OnConnected => hooks' = Append(hooks, newconn[t])
        /\ pc[t] = "hook" /\ Moves(t) => pc'[t] = "lock2" /\ hooks' = hooks
        /\ pc[t] \in {"wait", "ret"} /\ Moves(t) => ops[myop[t]].open
        /\ pc[t] = "join" /\ Moves(t) => myop'[t] = wg /\ pc'[t] = "wait"

\* C13: with a callback configured, every transport a reconnect installs has
\* had the callback called on it, once, at the swap; the callback returns
\* before the owner leaves the loop; the operation's barrier is shut for all
\* that time; and owner and joiners leave reconnect(), to retry their I/O,
\* only through an open barrier.
C13_HookOnceBeforeResume ==
    /\ []C13_OncePerTransport
    /\ []C13_ShutInLoop
    /\ [][C13_Step]_vars

\* Owner and joiner of the reconnect that installed transport 2 have both
\* resumed their I/O, after the one call of the callback on it.
C13_Witness ==
    /\ OnConnected
    /\ hooks = <<1, 2>>
    /\ Conn = 2
    /\ \A t \in Threads : pc[t] = "io" /\ rcs[t] = 1

\* ---- C14 -----------------------------------------------------------------------
\* the wrapper is in nobody's hands
NoWrapper == closer = "none" /\ \A t \in Threads : pc[t] = "none"

C14_Inv ==
    /\ ctor \in {"dial", "hook", "hooked", "failed"} => NoWrapper
    /\ ctor = "dial" => hooks = <<>> /\ nconns = 0
    /\ ctor \in {"hook", "hooked"} => OnConnected /\ hooks = <<1>> /\ Conn = 1
    /\ ctor = "failed" =>
           \/ ctorErr = "ErrDial" /\ nconns = 0 /\ hooks = <<>>
           \/ ctorErr = "ErrHook" /\ OnConnected /\ hooks = <<1>>
    /\ ctor = "returned" =>
           /\ ctorErr = "nil"
           /\ Conn >= 1
           /\ OnConnected =>
                  Cardinality({i \in DOMAIN hooks : hooks[i] = 1}) = 1

C14_Step ==
    /\ ctor = "failed" => ctor' = "failed" /\ ctorErr' = ctorErr
    /\ ctor = "hook" => ctor' \in {"hook", "hooked"} /\ hooks' = hooks
    /\ ctor = "hooked" /\ ctor' = "returned" => hooks' = hooks
    /\ ctor = "dial" /\ ctor' = "returned" => ~OnConnected

\* C14: DialAutoReconnectContext hands out the wrapper only after the dial
\* succeeded and, with a callback configured, after the callback was called
\* on the dialed transport, once, and returned nil; when the dial fails
\* (before any callback) or the callback fails, it returns that error and no
\* wrapper, whatever happens later.
C14_Construction == []C14_Inv /\ [][C14_Step]_vars

\* Construction failed on the callback's error, called once on transport 1.
C14_Witness ==
    /\ ctor = "failed"
    /\ ctorErr = "ErrHook"
    /\ hooks = <<1>>
    /\ NoWrapper

\* ---- C15 -----------------------------------------------------------------------
C15_Step ==
    /\ Conn' # Conn =>
           \E t \in Threads :
               /\ pc[t] = "swap" /\ pc'[t] \in {"hook", "lock2"}
               /\ wg # 0 /\ wg' = wg
               /\ \A u \in Threads \ {t} : pc[u] \notin OwnerPcs
               /\ Conn' = newconn[t]
    /\ \A t \in Threads :
           /\ pc'[t] = "swap" /\ Moves(t) =>
                  /\ pc[t] = "dialing"
                  /\ nconns' = nconns + 1
                  /\ newconn'[t] = nconns'
           /\ pc[t] = "swap" /\ Moves(t) => Conn' = newconn[t]

\* C15: c.Conn changes only in the step the owner of the published operation
\* takes right after its DialContext returned a connection, and it changes
\* to that connection, whatever the callback returns later; no other step,
\* of Read, Write, Close, a joiner, a failed dial or a cancelled loop,
\* changes it.
C15_OnlyOwnerSwaps == [][C15_Step]_vars

\* The owner has installed the transport it dialed while a joiner waits.
C15_Witness ==
    /\ pc["writer"] \in {"hook", "lock2"}
    /\ newconn["writer"] = 2 /\ Conn = 2
    /\ pc["reader"] = "wait"
    /\ myop["reader"] = wg

\* ---- C16 -----------------------------------------------------------------------
C16_OpenNotActive == wg # 0 => ~ops[wg].open

C16_Step ==
    \A t \in Threads :
        /\ pc[t] = "done" /\ Moves(t) =>
               /\ myop[t] # wg
               /\ ~ops[myop[t]].open /\ ops'[myop[t]].open
        /\ pc[t] = "clear" /\ Moves(t) =>
               /\ wg # 0 /\ wg' = 0 /\ myop'[t] = wg
               /\ ops' = ops
        /\ pc[t] = "check" /\ Moves(t) =>
               pc'[t] = IF wg = 0 THEN "publish" ELSE "join"
        /\ pc[t] = "publish" /\ Moves(t) =>
               /\ wg = 0 /\ wg' \in FreeSlots
               /\ ops'[wg'] = NewOp
        /\ pc[t] = "join" /\ Moves(t) => myop'[t] = wg /\ ~ops[wg].open

\* C16: the owner sets c.wg to nil and only then calls wg.Done(), so the
\* operation c.wg points to never has its barrier open; a thread that enters
\* reconnect() after the clear finds c.wg nil and publishes a new operation,
\* barrier shut and err nil, and a thread that joins joins an operation
\* whose barrier is still shut.
C16_ClearBeforeDone == []C16_OpenNotActive /\ [][C16_Step]_vars

\* A new operation is published while a thread has yet to leave the one
\* completed before it.
C16_Witness ==
    /\ wg # 0
    /\ \E t \in Threads :
           /\ pc[t] \in {"wait", "ret"}
           /\ myop[t] # wg
           /\ ops[myop[t]].open

\* ---- C17 -----------------------------------------------------------------------
C17_Step ==
    \A t \in Threads :
        pc[t] = "swap" /\ Moves(t) /\ Conn' # Conn => mu = t

\* C17: the thread that replaces c.Conn holds c.mu while it does so.
C17_SwapUnderLock == [][C17_Step]_vars

\* ---- C18 -----------------------------------------------------------------------
\* between c.mu.Lock() and c.mu.Unlock()
LockedPcs == {"check", "join", "publish", "clear"}

\* C18: a thread holds c.mu exactly from c.mu.Lock() to the c.mu.Unlock()
\* that follows the test and publication, or the clearing, of c.wg; a thread
\* that is dialing, running the callback, in a backoff wait or waiting for a
\* barrier does not hold it, and neither does one outside reconnect().
C18_LockOnlyForPointer ==
    /\ mu \in Threads \cup {"free"}
    /\ \A t \in Threads : (mu = t) <=> (pc[t] \in LockedPcs)

\* A thread holds c.mu to test c.wg while the owner is in DialContext.
C18_Witness ==
    /\ pc["reader"] = "dialing"
    /\ pc["writer"] = "check"
    /\ mu = "writer"

\* ---- C19 -----------------------------------------------------------------------
\* C19: once Close has returned and no reconnect operation is published,
\* c.Conn is a transport that Close has closed.
C19_ClosedWrapperClosedConn ==
    (closer = "closed" /\ wg = 0) => connSt = "closed"

\* ---- C20 -----------------------------------------------------------------------
\* Only a transport that the peer dropped or Close closed makes an I/O fail
\* with io.EOF or a non-temporary net.Error, and such a transport does not
\* become live again: a transport that is live has had no such failure.
C20_Step == Conn' # Conn => connSt # "live"

\* C20: c.Conn is replaced only when an I/O on the transport it holds has
\* failed with an error that calls for a reconnect; a transport on which no
\* I/O failed so is not replaced.
C20_HealthyNotReplaced == [][C20_Step]_vars

====
